---- MODULE Spec2Model ----
(***************************************************************************)
(* SalesBrush: merge of advertising spend and conversion records into      *)
(* per-(date, campaign_id) rows with a derived cpa (run.py), the           *)
(* daily_stats store written through one psycopg2 connection               *)
(* (services/repository.py), and the refresh cycle that feeds it.          *)
(*                                                                         *)
(* Money is counted in cents, so spend 19.90 is 1990 and cpa 6.63 is 663.  *)
(* A date string is a small integer: a member of ValidDates is a           *)
(* well-formed YYYY-MM-DD string (ordered as the calendar orders it),      *)
(* 0 is a string that is not a date.                                       *)
(***************************************************************************)
EXTENDS Integers, Sequences, FiniteSets

VARIABLES
    pc,           \* position of the process
    spend_data,   \* spend records of the merge or request_api call looked at
    conv_data,    \* conversion records of that call
    start_date,   \* date range given to data_processing
    end_date,
    results,      \* what data_processing gave
    attempt,      \* request_api: loop variable
    delay,        \* request_api: time slept before the pass about to run
    netOnly,      \* request_api: every attempt so far hit a network error
    fetchRaised,  \* request_api ended by raising to its caller
    lastOutcome,  \* request_api: how the last attempt went
    cycleError,   \* exception raised inside the last update_data
    afterError,   \* the last update_data ran after one that had raised
    schema,       \* daily_stats exists (committed)
    store,        \* committed contents of daily_stats
    txStatus,     \* connection: "idle", "intrans" or "aborted"
    pending,      \* contents of daily_stats as the open transaction sees it
    called,       \* upsert_stats has been invoked
    lastRows,     \* rows of the last upsert_stats call
    preStore,     \* committed contents right before that call
    outcome,      \* "none", "ok" (returned) or "error" (raised)
    repeatOfOk    \* that call repeated the rows of a call that returned

vars == <<pc, spend_data, conv_data, start_date, end_date, results, attempt,
          delay, netOnly, fetchRaised, lastOutcome, cycleError, afterError, schema,
          store,
          txStatus, pending, called, lastRows, preStore, outcome, repeatOfOk>>

mergeVars == <<spend_data, conv_data, start_date, end_date, results>>
fetchVars == <<attempt, delay, netOnly, fetchRaised, lastOutcome>>
cycleVars == <<cycleError, afterError>>
dbVars == <<schema, store, txStatus, pending>>
callVars == <<called, lastRows, preStore, outcome, repeatOfOk>>

----------------------------------------------------------------------------
(* Bounds *)

MaxLen == 2       \* records in the two inputs of one merge, together
MaxApiLen == 1    \* records per collection in a seed file or API response
MaxRows == 2      \* rows in one upsert_stats call made on the repository
PageSize == 1     \* rows per execute_batch page (psycopg2 default: 100)

(* Program constants *)

MAX_RETRIES == 10
BASE_DELAY == 2

----------------------------------------------------------------------------
(* Values *)

ValidDates == {1, 2}
DateStrs == {0} \cup ValidDates
Campaigns == {1, 2}

\* a cell of a DataFrame column or of a row dict
Num(v) == [kind |-> "num", v |-> v]
NaN == [kind |-> "nan", v |-> 0]
None == [kind |-> "none", v |-> 0]
Str == [kind |-> "str", v |-> 0]          \* a value that is not a number

NaT == -1

SeqsUpTo(S, n) == UNION {[1..k -> S] : k \in 0..n}

SpendValues == {-100, 0, 1990}
ConvValues == {-1, 0, 3}

SpendRecords ==
    [date : DateStrs, campaign_id : Campaigns, spend : {Num(v) : v \in SpendValues}]
ConvRecords ==
    [date : DateStrs, campaign_id : Campaigns, conversions : {Num(v) : v \in ConvValues}]

MergeInputs ==
    {io \in SeqsUpTo(SpendRecords, MaxLen) \X SeqsUpTo(ConvRecords, MaxLen) :
        Len(io[1]) + Len(io[2]) <= MaxLen}

----------------------------------------------------------------------------
(* convert_data *)

KeyOf(r) == <<r.date, r.campaign_id>>

KeysOf(s) == {KeyOf(s[i]) : i \in DOMAIN s}

KeyLeq(a, b) == a[1] < b[1] \/ (a[1] = b[1] /\ a[2] <= b[2])

MinKey(K) == CHOOSE k \in K : \A j \in K : KeyLeq(k, j)

WithKey(s, k) == SelectSeq(s, LAMBDA r : KeyOf(r) = k)

MergedRow(k, sp, cv) ==
    [date |-> k[1], campaign_id |-> k[2], spend |-> sp, conversions |-> cv]

\* the rows an outer join gives one key: left rows x right rows, a missing
\* side as NaN
JoinKey(df_spend, df_conv, k) ==
    LET L == WithKey(df_spend, k)
        R == WithKey(df_conv, k)
    IN  IF R = <<>> THEN [i \in 1..Len(L) |-> MergedRow(k, L[i].spend, NaN)]
        ELSE IF L = <<>> THEN [j \in 1..Len(R) |-> MergedRow(k, NaN, R[j].conversions)]
        ELSE [n \in 1..(Len(L) * Len(R)) |->
                MergedRow(k, L[((n - 1) \div Len(R)) + 1].spend,
                             R[((n - 1) % Len(R)) + 1].conversions)]

RECURSIVE JoinKeys(_, _, _)
JoinKeys(df_spend, df_conv, K) ==
    IF K = {} THEN <<>>
    ELSE LET k == MinKey(K)
         IN  JoinKey(df_spend, df_conv, k) \o JoinKeys(df_spend, df_conv, K \ {k})

\* pd.merge(df_spend, df_conv, on=['date', 'campaign_id'], how='outer')
OuterMerge(df_spend, df_conv) ==
    JoinKeys(df_spend, df_conv, KeysOf(df_spend) \cup KeysOf(df_conv))

\* a parser that reads whatever it is given as some date
to_datetime_lenient(s) == IF s \in ValidDates THEN s ELSE 1

\* pd.to_datetime(..., format='%Y-%m-%d', errors='coerce')
to_datetime(s) == IF s \in ValidDates THEN s ELSE NaT

\* df_merged.dropna(subset=['date', 'campaign_id'])
dropna(df) == SelectSeq(df, LAMBDA r : r.date # NaT)

convert_data(spend, conv) ==
    IF spend = <<>> /\ conv = <<>> THEN <<>>
    ELSE LET df_merged == OuterMerge(spend, conv)
             dated == [i \in DOMAIN df_merged |->
                          [df_merged[i] EXCEPT !.date = to_datetime(@)]]
         IN  dropna(dated)

----------------------------------------------------------------------------
(* data_processing *)

\* a range that leaves its last day out
InRangeOpen(start, end, df) == SelectSeq(df, LAMBDA r : r.date >= start /\ r.date < end)

InRange(start, end, df) == SelectSeq(df, LAMBDA r : r.date >= start /\ r.date <= end)

\* .astype(float).fillna(0)
fillna(c) == IF c.kind = "nan" THEN 0 ELSE c.v

\* round(a / b, 2) on cents, for b > 0. An exact tie goes to the even cent;
\* Python rounds the binary float there, so ConvValues holds no even divisor
\* and no tie arises
Round2(a, b) ==
    LET q == a \div b
        r == a % b
    IN  IF 2 * r > b THEN q + 1
        ELSE IF 2 * r < b THEN q
        ELSE IF q % 2 = 0 THEN q ELSE q + 1

\* a ratio guarded against a zero divisor alone
CpaUnguarded(spend, conversions) ==
    IF conversions > 0 THEN Num(Round2(spend, conversions)) ELSE None

\* the lambda of df.apply: a number, or None
Cpa(spend, conversions) ==
    IF spend > 0 /\ conversions > 0 THEN Num(Round2(spend, conversions)) ELSE None

\* a column holding a float takes dtype float64 and shows None as NaN;
\* a column of None alone keeps None
CpaColumn(col) ==
    IF \E i \in DOMAIN col : col[i].kind = "num"
    THEN [i \in DOMAIN col |-> IF col[i].kind = "none" THEN NaN ELSE col[i]]
    ELSE col

Returned(rows) == [kind |-> "ok", rows |-> rows]
Raised(e) == [kind |-> e, rows |-> <<>>]

data_processing(start, end, merged_df) ==
    IF merged_df = <<>> THEN Returned(<<>>)
    ELSE LET df == InRange(start, end, merged_df)
         IN  IF \E i \in DOMAIN df : df[i].spend.kind = "str" \/ df[i].conversions.kind = "str"
             THEN Raised("ValueError")
             ELSE LET sp == [i \in DOMAIN df |-> fillna(df[i].spend)]
                      cv == [i \in DOMAIN df |-> fillna(df[i].conversions)]
                      cpa == CpaColumn([i \in DOMAIN df |-> Cpa(sp[i], cv[i])])
                  IN  Returned([i \in DOMAIN df |->
                          [date |-> df[i].date, campaign_id |-> df[i].campaign_id,
                           spend |-> sp[i], conversions |-> cv[i], cpa |-> cpa[i]]])

----------------------------------------------------------------------------
(* Repository: the daily_stats table behind one psycopg2 connection *)

EmptyTable == [k \in {} |-> [spend |-> 0, conversions |-> 0, cpa |-> None]]

\* an upsert that adds the new amounts to the stored ones
UpsertRowAdding(t, r) ==
    [k \in DOMAIN t \cup {KeyOf(r)} |->
        IF k = KeyOf(r)
        THEN IF k \in DOMAIN t
             THEN [spend |-> t[k].spend + r.spend,
                   conversions |-> t[k].conversions + r.conversions, cpa |-> r.cpa]
             ELSE [spend |-> r.spend, conversions |-> r.conversions, cpa |-> r.cpa]
        ELSE t[k]]

\* one INSERT ... ON CONFLICT (date, campaign_id) DO UPDATE SET ... = EXCLUDED....
UpsertRow(t, r) ==
    [k \in DOMAIN t \cup {KeyOf(r)} |->
        IF k = KeyOf(r)
        THEN [spend |-> r.spend, conversions |-> r.conversions, cpa |-> r.cpa]
        ELSE t[k]]

RECURSIVE UpsertRows(_, _)
UpsertRows(t, rows) ==
    IF rows = <<>> THEN t ELSE UpsertRows(UpsertRow(t, Head(rows)), Tail(rows))

Db(sch, st, status, pend) ==
    [schema |-> sch, store |-> st, status |-> status, pending |-> pend]

NPages(rows) == (Len(rows) + PageSize - 1) \div PageSize

NoFailure == [kind |-> "none", page |-> 0]

\* where a call can fail: on the client while a page is being formatted, or
\* on the server while a page is being executed
Failures(rows) ==
    {NoFailure} \cup [kind : {"client", "server"}, page : 1..NPages(rows)]

\* a statement the server rejects ends the open transaction's work
Abort(db) == Db(db.schema, db.store, "aborted", db.store)

\* execute_batch(cur, query, rows): pages of PageSize statements, each page
\* formatted on the client and then sent in the connection's transaction
execute_batch(db, rows, fail) ==
    IF rows = <<>> THEN [db |-> db, raised |-> FALSE]
    ELSE IF fail.kind = "client" /\ fail.page = 1 THEN [db |-> db, raised |-> TRUE]
    ELSE IF db.status = "aborted" THEN [db |-> db, raised |-> TRUE]
    ELSE IF ~db.schema \/ fail.kind = "server" THEN [db |-> Abort(db), raised |-> TRUE]
    ELSE IF fail.kind = "client"
    THEN [db |-> Db(db.schema, db.store, "intrans",
                    UpsertRows(db.pending, SubSeq(rows, 1, (fail.page - 1) * PageSize))),
          raised |-> TRUE]
    ELSE [db |-> Db(db.schema, db.store, "intrans", UpsertRows(db.pending, rows)),
          raised |-> FALSE]

\* connection.commit(): COMMIT of a failed transaction is a ROLLBACK
commit(db) ==
    IF db.status = "intrans" THEN Db(db.schema, db.pending, "idle", db.pending)
    ELSE Db(db.schema, db.store, "idle", db.store)

upsert_stats(db, rows, fail) ==
    LET e == execute_batch(db, rows, fail)
    IN  IF e.raised THEN e ELSE [db |-> commit(e.db), raised |-> FALSE]

\* CREATE TABLE IF NOT EXISTS daily_stats, then commit; on an error: log, raise
init_db(db, fail) ==
    IF db.status = "aborted" THEN [db |-> db, raised |-> TRUE]
    ELSE IF fail.kind = "server" THEN [db |-> Abort(db), raised |-> TRUE]
    ELSE [db |-> commit(Db(TRUE, db.store, "intrans", db.pending)), raised |-> FALSE]

CurrentDb == Db(schema, store, txStatus, pending)

SetDb(db) ==
    /\ schema' = db.schema
    /\ store' = db.store
    /\ txStatus' = db.status
    /\ pending' = db.pending

\* bookkeeping of one upsert_stats call made by the program
Note(rows, r) ==
    /\ called' = TRUE
    /\ lastRows' = rows
    /\ outcome' = IF r.raised THEN "error" ELSE "ok"
    /\ UNCHANGED <<preStore, repeatOfOk>>

\* bookkeeping of one upsert_stats call made on the repository directly
Record(rows, r) ==
    /\ called' = TRUE
    /\ lastRows' = rows
    /\ preStore' = store
    /\ outcome' = IF r.raised THEN "error" ELSE "ok"
    /\ repeatOfOk' = (called /\ outcome = "ok" /\ lastRows = rows)

----------------------------------------------------------------------------
(* The merge on its own: inputs drawn from the bounded sets, one call *)

NoResult == [kind |-> "none", rows |-> <<>>]

Quiet ==
    /\ attempt = 0 /\ delay = 0 /\ netOnly = TRUE /\ fetchRaised = FALSE
    /\ lastOutcome = "none" /\ cycleError = "none" /\ afterError = FALSE
    /\ schema = FALSE /\ store = EmptyTable /\ txStatus = "idle"
    /\ pending = EmptyTable
    /\ called = FALSE /\ lastRows = <<>> /\ preStore = EmptyTable
    /\ outcome = "none" /\ repeatOfOk = FALSE

InitMerge ==
    /\ pc = "input"
    /\ \E io \in MergeInputs : spend_data = io[1] /\ conv_data = io[2]
    /\ start_date \in ValidDates
    /\ end_date \in ValidDates
    /\ results = NoResult
    /\ Quiet

\* convert_data followed by data_processing, as main and update_data call them
Merge ==
    /\ pc = "input"
    /\ results' = data_processing(start_date, end_date, convert_data(spend_data, conv_data))
    /\ pc' = "merged"
    /\ UNCHANGED <<spend_data, conv_data, start_date, end_date>>
    /\ UNCHANGED <<fetchVars, cycleVars, dbVars, callVars>>

NextMerge == Merge

SpecMerge == InitMerge /\ [][NextMerge]_vars

----------------------------------------------------------------------------
(* The repository on its own: any caller, any rows *)

RowValues ==
    { [spend |-> 1990, conversions |-> 3, cpa |-> Num(663)],
      [spend |-> 1990, conversions |-> 0, cpa |-> None] }

StoreRows ==
    { [date |-> d, campaign_id |-> 1, spend |-> v.spend,
       conversions |-> v.conversions, cpa |-> v.cpa] : d \in ValidDates, v \in RowValues }

InitStore ==
    /\ pc = "repo"
    /\ spend_data = <<>> /\ conv_data = <<>>
    /\ start_date = 1 /\ end_date = 1
    /\ results = NoResult
    /\ Quiet

RepoInitDb ==
    /\ pc = "repo"
    /\ \E fail \in {NoFailure, [kind |-> "server", page |-> 1]} :
          SetDb(init_db(CurrentDb, fail).db)
    /\ UNCHANGED <<pc, mergeVars, fetchVars, cycleVars, callVars>>

RepoUpsert ==
    /\ pc = "repo"
    /\ \E rows \in SeqsUpTo(StoreRows, MaxRows) :
          \E fail \in Failures(rows) :
             LET r == upsert_stats(CurrentDb, rows, fail)
             IN  SetDb(r.db) /\ Record(rows, r)
    /\ UNCHANGED <<pc, mergeVars, fetchVars, cycleVars>>

NextStore == RepoInitDb \/ RepoUpsert

SpecStore == InitStore /\ [][NextStore]_vars

----------------------------------------------------------------------------
(* request_api on its own: one call, pass by pass *)

ApiSpendRecords ==
    { [date |-> 0, campaign_id |-> 1, spend |-> Num(1990)],
      [date |-> 1, campaign_id |-> 1, spend |-> Num(1990)],
      [date |-> 1, campaign_id |-> 1, spend |-> Str] }
ApiConvRecords ==
    [date : {1, 2}, campaign_id : {1}, conversions : {Num(3)}]

\* what the API call of one pass can answer
ApiSpend == SeqsUpTo(ApiSpendRecords, MaxApiLen)
ApiConv == SeqsUpTo(ApiConvRecords, MaxApiLen)

InitFetch ==
    /\ pc = "fetch"
    /\ spend_data = <<>> /\ conv_data = <<>>
    /\ start_date = 1 /\ end_date = 1
    /\ results = NoResult
    /\ attempt = 1 /\ delay = 0 /\ netOnly = TRUE /\ fetchRaised = FALSE
    /\ lastOutcome = "none"
    /\ cycleError = "none" /\ afterError = FALSE
    /\ schema = FALSE /\ store = EmptyTable /\ txStatus = "idle"
    /\ pending = EmptyTable
    /\ called = FALSE /\ lastRows = <<>> /\ preStore = EmptyTable
    /\ outcome = "none" /\ repeatOfOk = FALSE

\* time.sleep(BASE_DELAY * attempt)
Delay(n) == BASE_DELAY * n

\* a loop that ends by raising the network error
ExhaustedRaising == [raised |-> TRUE, spend |-> <<>>, conv |-> <<>>]

\* what request_api hands back once the loop is over
Exhausted == [raised |-> FALSE, spend |-> <<>>, conv |-> <<>>]

\* the loop ends without a return statement having run
LeaveLoop ==
    /\ pc' = "fetched"
    /\ spend_data' = Exhausted.spend
    /\ conv_data' = Exhausted.conv
    /\ fetchRaised' = Exhausted.raised

\* if spend_data and conv_data
Usable(sp, cv) == sp # <<>> /\ cv # <<>>

\* one pass of the loop whose API call answers
AttemptOk ==
    /\ pc = "fetch"
    /\ lastOutcome' = "ok"
    /\ netOnly' = FALSE
    /\ \E sp \in ApiSpend, cv \in ApiConv :
          IF Usable(sp, cv)
          THEN /\ pc' = "fetched"
               /\ spend_data' = sp /\ conv_data' = cv
               /\ UNCHANGED <<attempt, delay, fetchRaised>>
          ELSE IF attempt < MAX_RETRIES
          THEN /\ spend_data' = sp /\ conv_data' = cv
               /\ attempt' = attempt + 1
               /\ delay' = 0
               /\ UNCHANGED <<pc, fetchRaised>>
          ELSE /\ LeaveLoop
               /\ UNCHANGED <<attempt, delay>>
    /\ UNCHANGED <<start_date, end_date, results, cycleVars, dbVars, callVars>>

\* one pass of the loop whose API call raises RequestException / ConnectionError
AttemptNetworkError ==
    /\ pc = "fetch"
    /\ lastOutcome' = "network"
    /\ IF attempt < MAX_RETRIES
       THEN /\ delay' = Delay(attempt)
            /\ attempt' = attempt + 1
            /\ UNCHANGED <<pc, spend_data, conv_data, fetchRaised>>
       ELSE /\ LeaveLoop
            /\ UNCHANGED <<attempt, delay>>
    /\ UNCHANGED <<start_date, end_date, results, netOnly, cycleVars, dbVars, callVars>>

\* one pass of the loop whose API call raises anything else: break
AttemptUnexpectedError ==
    /\ pc = "fetch"
    /\ lastOutcome' = "unexpected"
    /\ netOnly' = FALSE
    /\ LeaveLoop
    /\ UNCHANGED <<start_date, end_date, results, attempt, delay, cycleVars, dbVars, callVars>>

NextFetch == AttemptOk \/ AttemptNetworkError \/ AttemptUnexpectedError

SpecFetch == InitFetch /\ [][NextFetch]_vars

\* every way a call of request_api can end: a usable answer, or the loop's end
RequestApiResults ==
    {[raised |-> FALSE, spend |-> sp, conv |-> cv] :
        sp \in ApiSpend \ {<<>>}, cv \in ApiConv \ {<<>>}} \cup {Exhausted}

\* a finished call of request_api ended in one of these ways
FetchedInResults ==
    pc = "fetched" =>
       [raised |-> fetchRaised, spend |-> spend_data, conv |-> conv_data] \in RequestApiResults

----------------------------------------------------------------------------
(* The program: main, then the scheduled refresh cycles *)

Init ==
    /\ pc = "start"
    /\ spend_data = <<>> /\ conv_data = <<>>
    /\ start_date = 1 /\ end_date = 1
    /\ results = NoResult
    /\ Quiet

\* main, when data_processing raises on the seed files: nothing is connected
MainMergeFails ==
    /\ pc = "start"
    /\ \E sp \in ApiSpend, cv \in ApiConv, s \in ValidDates, e \in ValidDates :
          LET r == data_processing(s, e, convert_data(sp, cv))
          IN  r.kind # "ok"
    /\ pc' = "failed"
    /\ UNCHANGED <<mergeVars, fetchVars, cycleVars, dbVars, callVars>>

\* main, when init_db raises: the error leaves main
MainInitDbFails ==
    /\ pc = "start"
    /\ \E sp \in ApiSpend, cv \in ApiConv, s \in ValidDates, e \in ValidDates :
          LET r == data_processing(s, e, convert_data(sp, cv))
              i == init_db(CurrentDb, [kind |-> "server", page |-> 1])
          IN  /\ r.kind = "ok"
              /\ SetDb(i.db)
    /\ pc' = "failed"
    /\ UNCHANGED <<mergeVars, fetchVars, cycleVars, callVars>>

\* main up to scheduler.start(): load the seed files, merge over the range of
\* the command line, connect, init_db, upsert_stats(results), add the job
Main ==
    /\ pc = "start"
    /\ \E sp \in ApiSpend, cv \in ApiConv, s \in ValidDates, e \in ValidDates :
          LET r == data_processing(s, e, convert_data(sp, cv))
              i == init_db(CurrentDb, NoFailure)
          IN  /\ r.kind = "ok"
              /\ \E fail \in Failures(r.rows) :
                    LET u == upsert_stats(i.db, r.rows, fail)
                    IN  /\ SetDb(u.db)
                        /\ Note(r.rows, u)
                        /\ pc' = IF u.raised THEN "failed" ELSE "scheduled"
    /\ UNCHANGED <<mergeVars, fetchVars, cycleVars>>

MinDate(df) == CHOOSE d \in {df[i].date : i \in DOMAIN df} : \A i \in DOMAIN df : d <= df[i].date
MaxDate(df) == CHOOSE d \in {df[i].date : i \in DOMAIN df} : \A i \in DOMAIN df : d >= df[i].date

\* a handler for network errors alone
HandlesNetworkOnly(e) == e \in {"RequestException", "ConnectionError"}

\* except Exception as e
Handles(e) == e \in {"RequestException", "ConnectionError", "ValueError", "DatabaseError"}

\* how update_data ends when e was raised inside its try block
AfterError(e) ==
    /\ cycleError' = e
    /\ pc' = IF Handles(e) THEN "scheduled" ELSE "escaped"

\* update_data up to the call of upsert_stats, for what request_api returned
Refresh(f) ==
    LET df_all == convert_data(f.spend, f.conv)
    IN  IF df_all = <<>>
        THEN [empty |-> TRUE, start |-> 1, end |-> 1, processed |-> NoResult]
        ELSE [empty |-> FALSE, start |-> MinDate(df_all), end |-> MaxDate(df_all),
              processed |-> data_processing(MinDate(df_all), MaxDate(df_all), df_all)]

\* the same, for every way request_api can end
Refreshed == [f \in RequestApiResults |-> Refresh(f)]

\* the scheduler runs the job: one more cycle, after whatever the last one did
Cycle(f) ==
    /\ pc = "scheduled"
    /\ ~f.raised
    /\ afterError' = (cycleError # "none")
    /\ UNCHANGED <<mergeVars, fetchVars>>

\* update_data: nothing left after convert_data, return
UpdateDataEmpty ==
    \E f \in RequestApiResults :
       /\ Cycle(f)
       /\ Refreshed[f].empty
       /\ cycleError' = "none"
       /\ pc' = "scheduled"
       /\ UNCHANGED <<dbVars, callVars>>

\* update_data: data_processing raises
UpdateDataMergeError ==
    \E f \in RequestApiResults :
       /\ Cycle(f)
       /\ ~Refreshed[f].empty
       /\ Refreshed[f].processed.kind # "ok"
       /\ AfterError(Refreshed[f].processed.kind)
       /\ UNCHANGED <<dbVars, callVars>>

\* update_data: merge over the dates fetched, upsert_stats when rows result
UpdateData ==
    \E f \in RequestApiResults :
       /\ Cycle(f)
       /\ ~Refreshed[f].empty
       /\ Refreshed[f].processed.kind = "ok"
       /\ LET processed_result == Refreshed[f].processed.rows
          IN  IF processed_result # <<>>
              THEN \E fail \in Failures(processed_result) :
                      LET u == upsert_stats(CurrentDb, processed_result, fail)
                      IN  /\ SetDb(u.db)
                          /\ Note(processed_result, u)
                          /\ IF u.raised
                             THEN AfterError("DatabaseError")
                             ELSE cycleError' = "none" /\ pc' = "scheduled"
              ELSE /\ cycleError' = "none"
                   /\ pc' = "scheduled"
                   /\ UNCHANGED <<dbVars, callVars>>

\* KeyboardInterrupt / SystemExit between cycles: conn.close() drops whatever
\* the connection had not committed
Stop ==
    /\ pc = "scheduled"
    /\ pc' = "stopped"
    /\ txStatus' = "closed"
    /\ pending' = store
    /\ UNCHANGED <<mergeVars, fetchVars, cycleVars, schema, store, callVars>>

Next ==
    \/ MainMergeFails
    \/ MainInitDbFails
    \/ Main
    \/ UpdateDataEmpty
    \/ UpdateDataMergeError
    \/ UpdateData
    \/ Stop

Spec == Init /\ [][Next]_vars

----------------------------------------------------------------------------
(* Properties of the merge (SpecMerge) *)

WellFormed(s) == SelectSeq(s, LAMBDA r : r.date \in ValidDates)

HasMalformed == WellFormed(spend_data) # spend_data \/ WellFormed(conv_data) # conv_data

InputKeys == KeysOf(spend_data) \cup KeysOf(conv_data)

KeysInRange ==
    {k \in InputKeys : k[1] \in ValidDates /\ start_date <= k[1] /\ k[1] <= end_date}

\* C1: the merge returns exactly the keys of either input dated inside
\* [start_date, end_date], and a key one input lacks gets 0 for that input's value
C1_KeysInRange ==
    pc = "merged" =>
       /\ results.kind = "ok"
       /\ KeysOf(results.rows) = KeysInRange
       /\ \A i \in DOMAIN results.rows :
             /\ KeyOf(results.rows[i]) \notin KeysOf(WellFormed(spend_data))
                   => results.rows[i].spend = 0
             /\ KeyOf(results.rows[i]) \notin KeysOf(WellFormed(conv_data))
                   => results.rows[i].conversions = 0

\* a merge with a key of one input alone inside the range, and with a dated
\* key outside the range
C1_Witness ==
    /\ pc = "merged"
    /\ \E i \in DOMAIN results.rows :
          /\ KeyOf(results.rows[i]) \notin KeysOf(conv_data)
          /\ results.rows[i].conversions = 0
    /\ \E k \in InputKeys : k[1] \in ValidDates /\ k \notin KeysInRange

\* C2: a row's cpa is a number, and then not negative, exactly when its spend
\* and its conversions are both positive; otherwise it is null (None or NaN);
\* the call does not raise
C2_CpaDefined ==
    pc = "merged" =>
       /\ results.kind = "ok"
       /\ \A i \in DOMAIN results.rows :
             LET r == results.rows[i]
             IN  IF r.spend > 0 /\ r.conversions > 0
                 THEN r.cpa.kind = "num" /\ r.cpa.v >= 0
                 ELSE r.cpa.kind \in {"none", "nan"}

\* a merge with a row of spend 19.90 and 3 conversions, whose cpa is 6.63
C2_Witness ==
    /\ pc = "merged"
    /\ \E i \in DOMAIN results.rows :
          /\ results.rows[i].spend = 1990
          /\ results.rows[i].conversions = 3
          /\ results.rows[i].cpa = Num(663)

\* C9, as stated: a record with a malformed date makes the merge fail with a
\* parsing error
C9_Claimed == (pc = "merged" /\ HasMalformed) => results.kind = "ParseError"

\* C9, as the code has it: a record with a malformed date is dropped, no error
\* is raised, and the merge returns what it returns for the other records
C9_MalformedDropped ==
    (pc = "merged" /\ HasMalformed) =>
       results = data_processing(start_date, end_date,
                    convert_data(WellFormed(spend_data), WellFormed(conv_data)))

\* a merge of a malformed record and a well-formed one that is returned
C9_Witness ==
    /\ pc = "merged"
    /\ HasMalformed
    /\ results.kind = "ok"
    /\ results.rows # <<>>

\* C10, as stated: the merged rows hold at most one row per (date, campaign_id)
C10_Claimed ==
    pc = "merged" =>
       \A i, j \in DOMAIN results.rows :
          KeyOf(results.rows[i]) = KeyOf(results.rows[j]) => i = j

----------------------------------------------------------------------------
(* Properties of the repository (SpecStore) *)

\* C3, as stated: after a call of upsert_stats the table holds either every
\* row of the batch on top of what it held before, or exactly what it held
\* before, and the latter whenever the call raised
C3_Claimed ==
    called =>
       /\ store = preStore \/ store = UpsertRows(preStore, lastRows)
       /\ outcome = "error" => store = preStore

\* the last row of rows with key k
LastWithKey(rows, k) == WithKey(rows, k)[Len(WithKey(rows, k))]

\* C4: a call of upsert_stats that repeats the rows of the call before it,
\* both having returned, leaves the table as that call left it, with the
\* values of the rows under their keys
C4_Idempotent ==
    (called /\ outcome = "ok" /\ repeatOfOk) =>
       /\ store = preStore
       /\ \A k \in KeysOf(lastRows) :
             /\ k \in DOMAIN store
             /\ store[k].spend = LastWithKey(lastRows, k).spend
             /\ store[k].conversions = LastWithKey(lastRows, k).conversions
             /\ store[k].cpa = LastWithKey(lastRows, k).cpa

\* the same two rows upserted twice, both calls returning
C4_Witness ==
    /\ called /\ outcome = "ok" /\ repeatOfOk
    /\ Len(lastRows) = 2
    /\ store # EmptyTable

----------------------------------------------------------------------------
(* Properties of the program (Spec) *)

\* C5, as stated: upsert_stats is never invoked with the rows of a merge that
\* gave none, in main as in update_data
C5_Claimed == called => lastRows # <<>>

\* C6: no exception raised inside update_data leaves it; after a cycle that
\* raised, the job is scheduled again
C6_ErrorsContained ==
    /\ pc # "escaped"
    /\ cycleError # "none" => pc \in {"scheduled", "stopped"}

\* a cycle has run to its end, raising nothing, after a cycle that had raised
C6_Witness ==
    /\ pc = "scheduled"
    /\ afterError
    /\ cycleError = "none"

----------------------------------------------------------------------------
(* Properties of request_api (SpecFetch) *)

\* C7, as stated: when every attempt fails with a network error, request_api
\* ends by raising a network error
C7_Claimed == (pc = "fetched" /\ netOnly) => fetchRaised

\* C7, as the code has it: at most MAX_RETRIES attempts; BASE_DELAY * attempt
\* slept after a failed attempt that is not the last; when every attempt fails
\* with a network error, request_api returns two empty collections, raising
\* nothing
C7_RetriesThenEmpty ==
    /\ attempt \in 1..MAX_RETRIES
    /\ (pc = "fetch" /\ lastOutcome = "network") => delay = BASE_DELAY * (attempt - 1)
    /\ (pc = "fetched" /\ netOnly) =>
          /\ attempt = MAX_RETRIES
          /\ ~fetchRaised
          /\ spend_data = <<>> /\ conv_data = <<>>

\* the call is over after MAX_RETRIES network errors, the last sleep being
\* the one after attempt MAX_RETRIES - 1
C7_Witness ==
    /\ pc = "fetched"
    /\ netOnly
    /\ attempt = MAX_RETRIES
    /\ delay = BASE_DELAY * (MAX_RETRIES - 1)

\* C8, as stated: an attempt that is answered with at least one collection
\* not empty ends the call, which returns the answer
C8_Claimed ==
    (lastOutcome = "ok" /\ (spend_data # <<>> \/ conv_data # <<>>)) => pc = "fetched"

====
